---- MODULE Spec2Model ----
(***************************************************************************)
(* Model of the block observer of the Axis RPC bridge:                     *)
(*   observeBlocks / blockSubscription  (blocks observer, part_000:190-239)*)
(*                                                                         *)
(* The worker goroutine is modelled statement by statement.  A Go select   *)
(* is modelled as the language defines it: when the select is evaluated    *)
(* and one or more cases can proceed, any one of them is chosen; when none *)
(* can proceed the goroutine parks and the first channel event that fires  *)
(* afterwards decides the case (variable wake).                            *)
(*                                                                         *)
(* Environment: the shutdown signal (close of axis.sigClose), the runtime  *)
(* timer, the remote event source behind axis.rpc.EthSubscribe (open       *)
(* outcome, stream failure, item delivery into axis.headers) and the       *)
(* consumer of axis.headers.  The error channel of a subscription follows  *)
(* the ethereum.Subscription contract: a single non-nil error value.       *)
(***************************************************************************)
EXTENDS Integers, Sequences, FiniteSets, TLC

\* ---- bounds of the model ------------------------------------------------
\* longest run of consecutive open failures the event source produces
MaxFails == 2
\* number of items the event source delivers over a run
MaxItems == 3
\* capacity of the forwarding channel axis.headers
HeadersCap == 2
\* cap on the number of open attempts of one worker run
MaxOpens == MaxFails + 2

\* the nil subscription reference
Nil == 0
\* an event source that never opens successfully
Always == -1

Handles == 1..MaxOpens
FailPlans == (0..MaxFails) \cup {Always}

\* no accessor was called yet
NoCall == [fn |-> "none"]

VARIABLES
    pc,           \* position of the worker goroutine in observeBlocks
    sub,          \* local variable sub (Nil or a handle)
    sigClose,     \* TRUE once axis.sigClose is closed
    tm,           \* retry timer tm: "none", "armed", "fired"
    wake,         \* case that woke a parked select: "none", "close", "timer", "err"
    opens,        \* number of calls of blockSubscription started
    ticks,        \* number of receives from tm.C
    issued,       \* number of handles returned by EthSubscribe
    hErr,         \* per handle, its error channel: "none", "ready", "taken"
    unsub,        \* per handle, number of Unsubscribe calls
    wgDone,       \* number of axis.wg.Done calls
    log,          \* number of log events per severity
    headers,      \* content of the channel axis.headers
    delivered,    \* number of items the event source has handed over
    consumed,     \* items read from axis.headers, in order
    srcFailsLeft, \* open failures the event source still produces before a success
    closedOn,     \* handle held healthy at a parked/evaluating wait when the signal fired
    closed,       \* the worker's situation at the moment the signal fired
    tmDelay,      \* duration of the timer created last at line 209 (seconds)
    call          \* the last call of a read accessor: inputs and results

vars == <<pc, sub, sigClose, tm, tmDelay, wake, opens, ticks, issued, hErr, unsub,
          wgDone, log, headers, delivered, consumed, srcFailsLeft, closedOn,
          closed, call>>

workerVars == <<pc, sub, tm, tmDelay, wake, opens, ticks, wgDone, log>>
streamVars == <<headers, delivered, consumed>>

\* a handle that a successful open returned and that neither failed nor was torn down
Live(h) == h <= issued /\ hErr[h] = "none" /\ unsub[h] = 0
LiveHandles == {h \in Handles : Live(h)}

Subscribed == pc \in {"subSelect", "subParked"}
Unsubscribed == pc \in {"retrySelect", "retryParked"}

Init ==
    /\ pc = "start"
    /\ sub = Nil
    /\ sigClose = FALSE
    /\ tm = "none"
    /\ wake = "none"
    /\ opens = 0
    /\ ticks = 0
    /\ issued = 0
    /\ hErr = [h \in Handles |-> "none"]
    /\ unsub = [h \in Handles |-> 0]
    /\ wgDone = 0
    /\ log = [critical |-> 0, error |-> 0, notice |-> 0]
    /\ headers = <<>>
    /\ delivered = 0
    /\ consumed = <<>>
    /\ srcFailsLeft \in FailPlans
    /\ closedOn = Nil
    /\ closed = [at |-> "never", first |-> FALSE, opens |-> 0]
    /\ tmDelay = 0
    /\ call = NoCall

\* ---- the worker: observeBlocks -------------------------------------------

\* line 191: the time between subscription attempts, in seconds
axisHeadsObserverSubscribeTick == 30

\* line 209: the duration of the timer created after n failed open attempts
RetryDelayBackoff(n) == axisHeadsObserverSubscribeTick * (n + 1)
RetryDelay(n) == axisHeadsObserverSubscribeTick

\* line 208: re-subscribe if the subscription ref is not valid
NeedsResubscribeAlways(s) == TRUE
NeedsResubscribe(s) == s = Nil

\* top of the for loop (lines 206-220) for a value s of sub: either a fresh
\* timer is created and the retry select is entered, or the subscribed select
LoopTop(s) ==
    IF NeedsResubscribe(s)
    THEN /\ tm' = "armed"
         /\ tmDelay' = RetryDelay(log.critical)
         /\ pc' = "retrySelect"
    ELSE /\ tm' = tm
         /\ tmDelay' = tmDelay
         /\ pc' = "subSelect"

\* line 205: the initial call of blockSubscription starts
InitialSubscribe ==
    /\ pc = "start"
    /\ pc' = "opening"
    /\ opens' = opens + 1
    /\ UNCHANGED <<sub, sigClose, tm, tmDelay, wake, ticks, issued, hErr, unsub, wgDone,
                   log, streamVars, srcFailsLeft, closedOn, closed, call>>

\* lines 232-239: EthSubscribe returns; the result is assigned to sub
\* (line 205 or 214) and the loop goes to its top
blockSubscriptionCancellable ==
    /\ pc = "opening"
    /\ srcFailsLeft # 0 \/ sigClose
    /\ log' = [log EXCEPT !.critical = @ + 1]
    /\ sub' = Nil
    /\ srcFailsLeft' = IF srcFailsLeft \in {Always, 0} THEN srcFailsLeft
                       ELSE srcFailsLeft - 1
    /\ IF sigClose
       THEN pc' = "defer" /\ tm' = tm /\ tmDelay' = tmDelay
       ELSE LoopTop(Nil)
    /\ UNCHANGED <<sigClose, wake, opens, ticks, issued, hErr, unsub, wgDone,
                   streamVars, closedOn, closed, call>>
blockSubscriptionFatal ==
    /\ pc = "opening"
    /\ srcFailsLeft # 0
    /\ log' = [log EXCEPT !.critical = @ + 1]
    /\ sub' = Nil
    /\ srcFailsLeft' = IF srcFailsLeft = Always THEN Always ELSE srcFailsLeft - 1
    /\ pc' = "defer"
    /\ UNCHANGED <<sigClose, tm, tmDelay, wake, opens, ticks, issued, hErr, unsub, wgDone,
                   streamVars, closedOn, closed, call>>
blockSubscriptionErr ==
    /\ pc = "opening"
    /\ srcFailsLeft # 0
    /\ log' = [log EXCEPT !.critical = @ + 1]
    /\ sub' = Nil
    /\ srcFailsLeft' = IF srcFailsLeft = Always THEN Always ELSE srcFailsLeft - 1
    /\ LoopTop(Nil)
    /\ UNCHANGED <<sigClose, wake, opens, ticks, issued, hErr, unsub, wgDone,
                   streamVars, closedOn, closed, call>>

blockSubscriptionOk ==
    /\ pc = "opening"
    /\ srcFailsLeft = 0
    /\ issued' = issued + 1
    /\ sub' = issued + 1
    /\ srcFailsLeft' \in FailPlans
    /\ LoopTop(issued + 1)
    /\ UNCHANGED <<sigClose, wake, opens, ticks, hErr, unsub, wgDone, log,
                   streamVars, closedOn, closed, call>>

\* line 210, no case can proceed: the goroutine parks
RetryParkSpins ==
    /\ pc = "retrySelect"
    /\ ~sigClose
    /\ tm # "fired"
    /\ opens < MaxOpens
    /\ opens' = opens + 1
    /\ pc' = "opening"
    /\ wake' = "none"
    /\ UNCHANGED <<sub, sigClose, tm, tmDelay, ticks, issued, hErr, unsub, wgDone,
                   log, streamVars, srcFailsLeft, closedOn, closed, call>>
RetryPark ==
    /\ pc = "retrySelect"
    /\ ~sigClose
    /\ tm # "fired"
    /\ pc' = "retryParked"
    /\ wake' = "none"
    /\ UNCHANGED <<sub, sigClose, tm, tmDelay, opens, ticks, issued, hErr, unsub, wgDone,
                   log, streamVars, srcFailsLeft, closedOn, closed, call>>

\* lines 211-212: case <-axis.sigClose: return
RetryCloseBreaks ==
    /\ \/ pc = "retrySelect" /\ sigClose
       \/ pc = "retryParked" /\ wake = "close"
    /\ wake' = "none"
    /\ LoopTop(sub)
    /\ UNCHANGED <<sub, sigClose, opens, ticks, issued, hErr, unsub, wgDone,
                   log, streamVars, srcFailsLeft, closedOn, closed, call>>
RetryClose ==
    /\ \/ pc = "retrySelect" /\ sigClose
       \/ pc = "retryParked" /\ wake = "close"
    /\ pc' = "defer"
    /\ wake' = "none"
    /\ UNCHANGED <<sub, sigClose, tm, tmDelay, opens, ticks, issued, hErr, unsub, wgDone,
                   log, streamVars, srcFailsLeft, closedOn, closed, call>>

\* lines 213-215: case <-tm.C: the next call of blockSubscription starts
RetryTickGivesUp ==
    /\ \/ pc = "retrySelect" /\ tm = "fired"
       \/ pc = "retryParked" /\ wake = "timer"
    /\ opens < MaxOpens
    /\ tm' = "none"
    /\ tmDelay' = tmDelay
    /\ wake' = "none"
    /\ ticks' = ticks + 1
    /\ IF log.critical < 2
       THEN opens' = opens + 1 /\ pc' = "opening"
       ELSE opens' = opens /\ pc' = "defer"
    /\ UNCHANGED <<sub, sigClose, issued, hErr, unsub, wgDone, log, streamVars,
                   srcFailsLeft, closedOn, closed, call>>
RetryTick ==
    /\ \/ pc = "retrySelect" /\ tm = "fired"
       \/ pc = "retryParked" /\ wake = "timer"
    /\ opens < MaxOpens
    /\ tm' = "none"
    /\ tmDelay' = tmDelay
    /\ wake' = "none"
    /\ ticks' = ticks + 1
    /\ opens' = opens + 1
    /\ pc' = "opening"
    /\ UNCHANGED <<sub, sigClose, issued, hErr, unsub, wgDone, log, streamVars,
                   srcFailsLeft, closedOn, closed, call>>

\* line 220, no case can proceed: the goroutine parks
SubPark ==
    /\ pc = "subSelect"
    /\ ~sigClose
    /\ hErr[sub] # "ready"
    /\ pc' = "subParked"
    /\ wake' = "none"
    /\ UNCHANGED <<sub, sigClose, tm, tmDelay, opens, ticks, issued, hErr, unsub, wgDone,
                   log, streamVars, srcFailsLeft, closedOn, closed, call>>

\* lines 221-222: case <-axis.sigClose: return
SubCloseDrops ==
    /\ \/ pc = "subSelect" /\ sigClose
       \/ pc = "subParked" /\ wake = "close"
    /\ sub' = Nil
    /\ pc' = "defer"
    /\ wake' = "none"
    /\ UNCHANGED <<sigClose, tm, tmDelay, opens, ticks, issued, hErr, unsub, wgDone,
                   log, streamVars, srcFailsLeft, closedOn, closed, call>>
SubCloseUnsubscribes ==
    /\ \/ pc = "subSelect" /\ sigClose
       \/ pc = "subParked" /\ wake = "close"
    /\ unsub' = [unsub EXCEPT ![sub] = @ + 1]
    /\ pc' = "defer"
    /\ wake' = "none"
    /\ UNCHANGED <<sub, sigClose, tm, tmDelay, opens, ticks, issued, hErr, wgDone,
                   log, streamVars, srcFailsLeft, closedOn, closed, call>>
SubClose ==
    /\ \/ pc = "subSelect" /\ sigClose
       \/ pc = "subParked" /\ wake = "close"
    /\ pc' = "defer"
    /\ wake' = "none"
    /\ UNCHANGED <<sub, sigClose, tm, tmDelay, opens, ticks, issued, hErr, unsub, wgDone,
                   log, streamVars, srcFailsLeft, closedOn, closed, call>>

\* lines 223-225: case err := <-sub.Err(): log, sub = nil, back to the loop top
SubErrReturns ==
    /\ \/ pc = "subSelect" /\ hErr[sub] = "ready"
       \/ pc = "subParked" /\ wake = "err"
    /\ hErr' = [hErr EXCEPT ![sub] = "taken"]
    /\ log' = [log EXCEPT !.error = @ + 1]
    /\ sub' = Nil
    /\ wake' = "none"
    /\ pc' = "defer"
    /\ UNCHANGED <<sigClose, tm, tmDelay, opens, ticks, issued, unsub, wgDone, streamVars,
                   srcFailsLeft, closedOn, closed, call>>
SubErrReopens ==
    /\ \/ pc = "subSelect" /\ hErr[sub] = "ready"
       \/ pc = "subParked" /\ wake = "err"
    /\ opens < MaxOpens
    /\ hErr' = [hErr EXCEPT ![sub] = "taken"]
    /\ log' = [log EXCEPT !.error = @ + 1]
    /\ sub' = Nil
    /\ wake' = "none"
    /\ opens' = opens + 1
    /\ pc' = "opening"
    /\ UNCHANGED <<sigClose, tm, tmDelay, ticks, issued, unsub, wgDone, streamVars,
                   srcFailsLeft, closedOn, closed, call>>
SubErr ==
    /\ \/ pc = "subSelect" /\ hErr[sub] = "ready"
       \/ pc = "subParked" /\ wake = "err"
    /\ hErr' = [hErr EXCEPT ![sub] = "taken"]
    /\ log' = [log EXCEPT !.error = @ + 1]
    /\ sub' = Nil
    /\ wake' = "none"
    /\ LoopTop(Nil)
    /\ UNCHANGED <<sigClose, opens, ticks, issued, unsub, wgDone, streamVars,
                   srcFailsLeft, closedOn, closed, call>>

\* lines 198-200 of the deferred function: if sub != nil { sub.Unsubscribe() }
DeferSkipsUnsubscribe ==
    /\ pc = "defer"
    /\ unsub' = unsub
    /\ pc' = "deferLog"
    /\ UNCHANGED <<sub, sigClose, tm, tmDelay, wake, opens, ticks, issued, hErr, wgDone,
                   log, streamVars, srcFailsLeft, closedOn, closed, call>>
DeferUnsubscribe ==
    /\ pc = "defer"
    /\ unsub' = IF sub # Nil THEN [unsub EXCEPT ![sub] = @ + 1] ELSE unsub
    /\ pc' = "deferLog"
    /\ UNCHANGED <<sub, sigClose, tm, tmDelay, wake, opens, ticks, issued, hErr, wgDone,
                   log, streamVars, srcFailsLeft, closedOn, closed, call>>

\* line 201: axis.log.Noticef("block observer done")
DeferNoticeSilent ==
    /\ pc = "deferLog"
    /\ log' = log
    /\ pc' = "deferDone"
    /\ UNCHANGED <<sub, sigClose, tm, tmDelay, wake, opens, ticks, issued, hErr, unsub,
                   wgDone, streamVars, srcFailsLeft, closedOn, closed, call>>
DeferNotice ==
    /\ pc = "deferLog"
    /\ log' = [log EXCEPT !.notice = @ + 1]
    /\ pc' = "deferDone"
    /\ UNCHANGED <<sub, sigClose, tm, tmDelay, wake, opens, ticks, issued, hErr, unsub,
                   wgDone, streamVars, srcFailsLeft, closedOn, closed, call>>

\* line 202: axis.wg.Done(), then the goroutine ends
DeferDoneTwice ==
    /\ pc = "deferDone"
    /\ wgDone' = wgDone + 2
    /\ pc' = "done"
    /\ UNCHANGED <<sub, sigClose, tm, tmDelay, wake, opens, ticks, issued, hErr, unsub,
                   log, streamVars, srcFailsLeft, closedOn, closed, call>>
DeferDone ==
    /\ pc = "deferDone"
    /\ wgDone' = wgDone + 1
    /\ pc' = "done"
    /\ UNCHANGED <<sub, sigClose, tm, tmDelay, wake, opens, ticks, issued, hErr, unsub,
                   log, streamVars, srcFailsLeft, closedOn, closed, call>>

Worker ==
    \/ InitialSubscribe
    \/ RetryPark \/ RetryClose \/ RetryTick
    \/ SubPark \/ SubClose \/ SubErr
    \/ DeferUnsubscribe \/ DeferNotice \/ DeferDone

\* ---- the environment -----------------------------------------------------

\* axis.sigClose is closed (observed at lines 211 and 221); a parked select
\* is woken with the close case
CloseSignal ==
    /\ ~sigClose
    /\ sigClose' = TRUE
    /\ wake' = IF pc \in {"retryParked", "subParked"} /\ wake = "none"
               THEN "close" ELSE wake
    /\ closedOn' = IF Subscribed /\ wake = "none" /\ Live(sub) THEN sub ELSE Nil
    /\ closed' = [at |-> pc,
                  first |-> \/ Unsubscribed /\ tm = "armed"
                            \/ Subscribed /\ hErr[sub] = "none",
                  opens |-> opens]
    /\ UNCHANGED <<pc, sub, tm, tmDelay, opens, ticks, issued, hErr, unsub, wgDone,
                   log, streamVars, srcFailsLeft, call>>

\* the timer created at line 209 expires after axisHeadsObserverSubscribeTick
TimerExpire ==
    /\ tm = "armed"
    /\ tm' = "fired"
    /\ tmDelay' = tmDelay
    /\ wake' = IF pc = "retryParked" /\ wake = "none" THEN "timer" ELSE wake
    /\ UNCHANGED <<pc, sub, sigClose, opens, ticks, issued, hErr, unsub, wgDone,
                   log, streamVars, srcFailsLeft, closedOn, closed, call>>

\* the stream of a live handle breaks: its error channel (line 223) receives
\* one error value
StreamFail ==
    \E h \in LiveHandles :
        /\ hErr' = [hErr EXCEPT ![h] = "ready"]
        /\ wake' = IF pc = "subParked" /\ sub = h /\ wake = "none"
                   THEN "err" ELSE wake
        /\ UNCHANGED <<pc, sub, sigClose, tm, tmDelay, opens, ticks, issued, unsub, wgDone,
                       log, streamVars, srcFailsLeft, closedOn, closed, call>>

\* line 233: the subscription opened on axis.headers sends the next item on
\* that channel; the send blocks while the channel is full
DeliverDrops ==
    /\ LiveHandles # {}
    /\ delivered < MaxItems
    /\ delivered' = delivered + 1
    /\ headers' = IF Len(headers) < HeadersCap
                  THEN Append(headers, delivered + 1) ELSE headers
    /\ UNCHANGED <<workerVars, sub, sigClose, issued, hErr, unsub, consumed,
                   srcFailsLeft, closedOn, closed, call>>
DeliverFront ==
    /\ LiveHandles # {}
    /\ delivered < MaxItems
    /\ Len(headers) < HeadersCap
    /\ delivered' = delivered + 1
    /\ headers' = <<delivered + 1>> \o headers
    /\ UNCHANGED <<workerVars, sub, sigClose, issued, hErr, unsub, consumed,
                   srcFailsLeft, closedOn, closed, call>>
Deliver ==
    /\ LiveHandles # {}
    /\ delivered < MaxItems
    /\ Len(headers) < HeadersCap
    /\ delivered' = delivered + 1
    /\ headers' = Append(headers, delivered + 1)
    /\ UNCHANGED <<workerVars, sub, sigClose, issued, hErr, unsub, consumed,
                   srcFailsLeft, closedOn, closed, call>>

\* the consumer of axis.headers receives the oldest item
Consume ==
    /\ headers # <<>>
    /\ consumed' = Append(consumed, Head(headers))
    /\ headers' = Tail(headers)
    /\ UNCHANGED <<workerVars, sub, sigClose, issued, hErr, unsub, delivered,
                   srcFailsLeft, closedOn, closed, call>>

Next ==
    \/ InitialSubscribe
    \/ blockSubscriptionErr
    \/ blockSubscriptionOk
    \/ RetryPark
    \/ RetryClose
    \/ RetryTick
    \/ SubPark
    \/ SubClose
    \/ SubErr
    \/ DeferUnsubscribe
    \/ DeferNotice
    \/ DeferDone
    \/ CloseSignal
    \/ TimerExpire
    \/ StreamFail
    \/ Deliver
    \/ Consume

Spec == Init /\ [][Next]_vars

\* The Go scheduler runs a runnable goroutine, the runtime timer expires, and
\* the event source answers every open call.
FairSpec ==
    /\ Spec
    /\ WF_vars(Worker)
    /\ WF_vars(TimerExpire)
    /\ WF_vars(blockSubscriptionErr \/ blockSubscriptionOk)

\* A select evaluated with several ready cases picks one uniformly at random,
\* so a case that is ready at infinitely many evaluations is eventually taken.
SelectFairSpec ==
    /\ FairSpec
    /\ SF_vars(RetryClose)
    /\ SF_vars(SubClose)

\* The consumer of axis.headers is not stalled for ever.
DrainSpec ==
    /\ Spec
    /\ WF_vars(Consume)

\* ---- the read accessors --------------------------------------------------

\* bound: largest amount, epoch or configuration value a contract call returns
MaxValue == 3

\* the nil error
ErrNil == "nil"
\* a nil *big.Int / nil record pointer, and a pointer to the value v
NilPtr == [nil |-> TRUE, v |-> 0]
Ptr(v) == [nil |-> FALSE, v |-> v]

\* the errors a contract call (or the ABI pack step) can return
CallErrs == {ErrNil, "call failed"}
PackErrs == {ErrNil, "pack failed"}

\* part_000 line 66: the expected size of the penalty response, in bytes
PenaltyResponseLen == 32

\* n zero bytes
Zeros(n) == [i \in 1..n |-> 0]
\* the responses of eth.CallContract tried: the empty one and responses of
\* 2, PenaltyResponseLen - 1, PenaltyResponseLen and PenaltyResponseLen + 1
\* bytes whose last two bytes vary
Responses ==
    {<<>>} \cup
    {Zeros(n) \o <<a, b>> :
        n \in {0, PenaltyResponseLen - 3, PenaltyResponseLen - 2, PenaltyResponseLen - 1},
        a \in {0, 1}, b \in {0, 1, 255}}

\* part_000 line 72: new(big.Int).SetBytes(data), big-endian unsigned
RECURSIVE SetBytes(_)
SetBytes(data) ==
    IF data = <<>> THEN 0
    ELSE 256 * SetBytes(SubSeq(data, 1, Len(data) - 1)) + data[Len(data)]

\* part_000 lines 46-73: StakeUnlockPenalty for the outcome of Pack, the
\* outcome of CallContract and the response data
StakeUnlockPenalty(packErr, callErr, data) ==
    IF packErr # ErrNil THEN [res |-> NilPtr, err |-> packErr]
    ELSE IF callErr # ErrNil THEN [res |-> NilPtr, err |-> callErr]
    ELSE IF Len(data) # PenaltyResponseLen
         THEN [res |-> NilPtr, err |-> callErr]
    ELSE [res |-> Ptr(SetBytes(data)), err |-> ErrNil]

\* part_000 lines 76-94: PendingRewards for the outcome (amo, err) of the
\* contract call; the result record is returned by pointer
PendingRewards(addr, valID, amo, callErr) ==
    IF callErr # ErrNil
    THEN [res |-> Ptr([Address |-> addr, Staker |-> valID, Amount |-> 0]),
          err |-> ErrNil]
    ELSE [res |-> Ptr([Address |-> addr, Staker |-> valID, Amount |-> amo]),
          err |-> ErrNil]

\* sfc_base.go line 29: the first epoch with stake locking available
sfcFirstLockEpoch == 1600

\* sfc_base.go lines 45-53: CurrentEpoch for the outcome of the contract call
CurrentEpoch(epoch, callErr) ==
    IF callErr # ErrNil THEN [res |-> Ptr(0), err |-> callErr]
    ELSE [res |-> Ptr(epoch), err |-> ErrNil]

\* sfc_base.go lines 56-64: CurrentSealedEpoch
CurrentSealedEpoch(epoch, callErr) ==
    IF callErr # ErrNil THEN [res |-> Ptr(0), err |-> callErr]
    ELSE [res |-> Ptr(epoch), err |-> ErrNil]

\* sfc_base.go lines 94-103: LockingAllowed
LockingAllowed(epoch, callErr) ==
    IF callErr # ErrNil THEN [res |-> Ptr(FALSE), err |-> callErr]
    ELSE [res |-> Ptr(epoch >= sfcFirstLockEpoch), err |-> ErrNil]

\* the values a contract call returns by pointer: nil or a small number
PtrValues == {NilPtr} \cup {Ptr(v) : v \in 0..MaxValue}

\* part_000 lines 97-126: DelegationLock for the outcome of GetLockupInfo
\* ("ok", "err" or "panic") and the lock record it returns.  A panic, in the
\* call or on a nil field dereferenced at lines 121-124, is recovered by the
\* deferred function, which sets dll to an empty record; the named result err
\* is nil at that point.
EmptyDelegationLock ==
    [LockedAmount |-> 0, LockedFromEpoch |-> 0, LockedUntil |-> 0, Duration |-> 0]
DelegationLock(outcome, lock) ==
    IF outcome = "panic" THEN [res |-> Ptr(EmptyDelegationLock), err |-> ErrNil]
    ELSE IF outcome = "err" THEN [res |-> NilPtr, err |-> "call failed"]
    ELSE IF lock.FromEpoch.nil \/ lock.EndTime.nil
         THEN [res |-> NilPtr, err |-> "delegation lock missing"]
    ELSE IF lock.LockedStake.nil \/ lock.Duration.nil
         THEN [res |-> Ptr(EmptyDelegationLock), err |-> ErrNil]
    ELSE [res |-> Ptr([LockedAmount |-> lock.LockedStake.v,
                       LockedFromEpoch |-> lock.FromEpoch.v,
                       LockedUntil |-> lock.EndTime.v,
                       Duration |-> lock.Duration.v]),
          err |-> ErrNil]

\* defi_settings.go lines 51-55: the keys of the loaders map
ConfigItems == {"MintFee4", "MinCollateralRatio4", "RewardCollateralRatio4"}
\* the outcome (val, err) of one loader call
LoaderOutcomes ==
    {[val |-> Ptr(1), err |-> ErrNil], [val |-> NilPtr, err |-> ErrNil],
     [val |-> NilPtr, err |-> "call failed"]}
\* the orders in which range visits the three keys of the map
IterationOrders ==
    {o \in [1..3 -> ConfigItems] : \A i, j \in 1..3 : i # j => o[i] # o[j]}

\* defi_settings.go lines 113-125: pullDefiConfigValue for a loader outcome
pullDefiConfigValue(o) ==
    IF o.err # ErrNil THEN [val |-> 0, err |-> o.err]
    ELSE IF o.val.nil THEN [val |-> 0, err |-> "defi config value not available"]
    ELSE [val |-> o.val.v, err |-> ErrNil]

\* defi_settings.go lines 97-110: pullSetOfDefiConfigValues, visiting the
\* loaders in the given order from position i; the first error is returned
RECURSIVE pullSetOfDefiConfigValues(_, _, _)
pullSetOfDefiConfigValues(order, loads, i) ==
    IF i > Len(order) THEN ErrNil
    ELSE IF pullDefiConfigValue(loads[order[i]]).err # ErrNil
         THEN pullDefiConfigValue(loads[order[i]]).err
    ELSE pullSetOfDefiConfigValues(order, loads, i + 1)

\* defi_settings.go lines 84-89: the number of decimals of the correction
RECURSIVE Decimals(_)
Decimals(value) == IF value > 1 THEN 1 + Decimals(value \div 10) ELSE 0

\* defi_settings.go lines 75-93: pullDefiDecimalCorrection
pullDefiDecimalCorrection(o) ==
    IF pullDefiConfigValue(o).err # ErrNil
    THEN [dec |-> 0, err |-> pullDefiConfigValue(o).err]
    ELSE [dec |-> Decimals(pullDefiConfigValue(o).val), err |-> ErrNil]

\* the outcomes of the FMintFeeDigitsCorrection loader tried
CorrectionOutcomes ==
    {[val |-> Ptr(v), err |-> ErrNil] : v \in {0, 1, 10, 100, 10000}}
    \cup {[val |-> NilPtr, err |-> ErrNil], [val |-> NilPtr, err |-> "call failed"]}

\* defi_settings.go lines 32-71: DefiConfiguration for the outcome of
\* fMintMinterContract, of the three loaders and of the correction loader
DefiConfiguration(contractErr, order, loads, corr) ==
    IF contractErr # ErrNil THEN [res |-> NilPtr, err |-> contractErr]
    ELSE IF pullSetOfDefiConfigValues(order, loads, 1) # ErrNil
         THEN [res |-> NilPtr, err |-> pullSetOfDefiConfigValues(order, loads, 1)]
    ELSE IF pullDefiDecimalCorrection(corr).err # ErrNil
         THEN [res |-> NilPtr, err |-> pullDefiDecimalCorrection(corr).err]
    ELSE [res |-> Ptr([MintFee4 |-> pullDefiConfigValue(loads["MintFee4"]).val,
                       MinCollateralRatio4 |->
                           pullDefiConfigValue(loads["MinCollateralRatio4"]).val,
                       RewardCollateralRatio4 |->
                           pullDefiConfigValue(loads["RewardCollateralRatio4"]).val,
                       Decimals |-> pullDefiDecimalCorrection(corr).dec]),
          err |-> ErrNil]

\* ---- a caller of the read accessors --------------------------------------
\* Each action is the one call of a run: call records the accessor, whether
\* a contract call of it returned an error (cerr), the inputs and the result.

\* the worker's state, untouched by the accessors
observerVars ==
    <<pc, sub, sigClose, tm, tmDelay, wake, opens, ticks, issued, hErr, unsub,
      wgDone, log, headers, delivered, consumed, srcFailsLeft, closedOn, closed>>

StakeUnlockPenaltyCall ==
    /\ call = NoCall
    /\ UNCHANGED observerVars
    /\ \E packErr \in PackErrs, callErr \in CallErrs, data \in Responses :
           call' = [fn |-> "StakeUnlockPenalty",
                    cerr |-> packErr = ErrNil /\ callErr # ErrNil,
                    in |-> <<packErr, callErr, data>>,
                    out |-> StakeUnlockPenalty(packErr, callErr, data)]

PendingRewardsCall ==
    /\ call = NoCall
    /\ UNCHANGED observerVars
    /\ \E addr \in 1..2, valID \in 1..2, amo \in 0..MaxValue, callErr \in CallErrs :
           call' = [fn |-> "PendingRewards",
                    cerr |-> callErr # ErrNil,
                    in |-> <<addr, valID, amo, callErr>>,
                    out |-> PendingRewards(addr, valID, amo, callErr)]

DelegationLockCall ==
    /\ call = NoCall
    /\ UNCHANGED observerVars
    /\ \E outcome \in {"ok", "err", "panic"},
          lock \in [LockedStake : PtrValues, FromEpoch : PtrValues,
                    EndTime : {NilPtr, Ptr(1)}, Duration : {NilPtr, Ptr(1)}] :
           call' = [fn |-> "DelegationLock",
                    cerr |-> outcome = "err",
                    in |-> <<outcome, lock>>,
                    out |-> DelegationLock(outcome, lock)]

CurrentEpochCall ==
    /\ call = NoCall
    /\ UNCHANGED observerVars
    /\ \E epoch \in 0..MaxValue, callErr \in CallErrs :
           call' = [fn |-> "CurrentEpoch",
                    cerr |-> callErr # ErrNil,
                    in |-> <<epoch, callErr>>,
                    out |-> CurrentEpoch(epoch, callErr)]

CurrentSealedEpochCall ==
    /\ call = NoCall
    /\ UNCHANGED observerVars
    /\ \E epoch \in 0..MaxValue, callErr \in CallErrs :
           call' = [fn |-> "CurrentSealedEpoch",
                    cerr |-> callErr # ErrNil,
                    in |-> <<epoch, callErr>>,
                    out |-> CurrentSealedEpoch(epoch, callErr)]

LockingAllowedCall ==
    /\ call = NoCall
    /\ UNCHANGED observerVars
    /\ \E epoch \in (sfcFirstLockEpoch - 1)..(sfcFirstLockEpoch + 1),
          callErr \in CallErrs :
           call' = [fn |-> "LockingAllowed",
                    cerr |-> callErr # ErrNil,
                    in |-> <<epoch, callErr>>,
                    out |-> LockingAllowed(epoch, callErr)]

DefiConfigurationCall ==
    /\ call = NoCall
    /\ UNCHANGED observerVars
    /\ \E contractErr \in CallErrs, order \in IterationOrders,
          loads \in [ConfigItems -> LoaderOutcomes], corr \in CorrectionOutcomes :
           call' = [fn |-> "DefiConfiguration",
                    cerr |-> \/ contractErr # ErrNil
                             \/ /\ contractErr = ErrNil
                                /\ \/ \E k \in ConfigItems : loads[k].err # ErrNil
                                   \/ corr.err # ErrNil,
                    in |-> <<contractErr, order, loads, corr>>,
                    out |-> DefiConfiguration(contractErr, order, loads, corr)]

AccessorNext ==
    \/ StakeUnlockPenaltyCall
    \/ PendingRewardsCall
    \/ DelegationLockCall
    \/ CurrentEpochCall
    \/ CurrentSealedEpochCall
    \/ LockingAllowedCall
    \/ DefiConfigurationCall

AccessorSpec == Init /\ [][AccessorNext]_vars

\* ---- properties -----------------------------------------------------------

Exiting == pc \in {"defer", "deferLog", "deferDone", "done"}

\* C1: the worker leaves its loop, and signals Done, only in a state where
\* the shutdown signal has already fired, whatever open failures, open
\* successes and stream failures came before.
C1_ExitOnlyOnShutdown == (Exiting \/ wgDone > 0) => sigClose

\* C1 witness: the worker is done after an open failure and a stream failure.
C1_Witness == pc = "done" /\ sigClose /\ log.critical > 0 /\ log.error > 0

\* C2: once the shutdown signal has fired, the wait point the worker
\* evaluates next sends it to the terminal cleanup; it never leaves a select
\* evaluated with sigClose closed by another case.
C2_ShutdownPromptness ==
    [][(pc \in {"retrySelect", "subSelect"} /\ sigClose /\ pc' # pc)
           => pc' = "defer"]_vars

\* C3: Unsubscribe is invoked at most once on any subscription handle.
C3_TeardownAtMostOnce == \A h \in Handles : unsub[h] <= 1

\* C3 witness: a handle whose stream failed was torn down on shutdown.
C3_Witness == \E h \in Handles : unsub[h] = 1 /\ hErr[h] = "ready" /\ sigClose

\* C4: wg.Done is called exactly once per run, at the exit and not before,
\* and a handle still held at the exit is torn down before Done is called.
C4_DoneExactlyOnce ==
    /\ pc # "done" => wgDone = 0
    /\ pc = "done" => wgDone = 1
    /\ (pc \in {"deferDone", "done"} /\ sub # Nil) => unsub[sub] = 1

\* C4 witness: the worker is done holding a handle it tore down.
C4_Witness == pc = "done" /\ wgDone = 1 /\ sub # Nil /\ unsub[sub] = 1

\* C5: with an event source that fails K open calls and then succeeds, the
\* worker reaches Subscribed after K+1 open attempts and K timer receives,
\* unless the shutdown signal fires.
C5_RetryPersistence ==
    \A k \in 0..MaxFails :
        (opens = 0 /\ srcFailsLeft = k)
            ~> (sigClose \/ (Subscribed /\ issued = 1 /\ opens = k + 1 /\ ticks = k
                             /\ log.critical = k))

\* C5 witness: Subscribed for the first time after MaxFails failed attempts.
C5_Witness ==
    /\ Subscribed /\ ~sigClose /\ issued = 1
    /\ opens = MaxFails + 1 /\ ticks = MaxFails /\ log.critical = MaxFails

\* C6: every open attempt but the first starts on the receive from a fired
\* retry timer, and no timer is pending while an open call is in flight, so
\* the timer that admits an attempt was created after the previous returned.
C6_NoBusyLoop ==
    /\ [](pc = "opening" => tm = "none")
    /\ [][opens' # opens =>
            /\ opens' = opens + 1
            /\ \/ pc = "start" /\ opens = 0
               \/ /\ Unsubscribed
                  /\ tm = "fired"
                  /\ tm' = "none"
                  /\ ticks' = ticks + 1]_vars

\* C6 witness: a third open attempt is in flight after two timer receives.
C6_Witness == pc = "opening" /\ opens = 3 /\ ticks = 2 /\ log.critical = 2

\* C7: at most one handle is live at any time, the live handle is the one
\* the worker holds, and no open call is in flight while a handle is live.
C7_AtMostOneLiveHandle ==
    /\ Cardinality(LiveHandles) <= 1
    /\ LiveHandles \subseteq {sub}
    /\ pc = "opening" => LiveHandles = {}

\* C7 witness: a second handle is live after the first one failed.
C7_Witness == issued = 2 /\ LiveHandles = {2} /\ hErr[1] = "taken"

\* the sequence 1, 2, ..., n of the items the event source hands over
ItemsUpTo(n) == [i \in 1..n |-> i]

C9_StreamFailureRecovery ==
    [][/\ (sub # Nil /\ hErr[sub] # "taken" /\ hErr'[sub] = "taken") =>
            /\ sub' = Nil
            /\ pc' = "retrySelect"
            /\ tm' = "armed"
            /\ opens' = opens
            /\ unsub' = unsub
       /\ (Unsubscribed /\ pc' = "opening") =>
            /\ tm = "fired"
            /\ ticks' = ticks + 1]_vars

\* C9 witness: the open attempt after a stream failure is in flight, with no
\* open failure in the run and no shutdown.
C9_Witness ==
    /\ pc = "opening" /\ ~sigClose
    /\ opens = 2 /\ ticks = 1 /\ log.error = 1 /\ log.critical = 0

\* C10: when the shutdown signal fired while the worker was Subscribed on a
\* healthy handle, the finished worker has torn that handle down exactly once
\* and called Done exactly once.
C10_ShutdownWhileSubscribed ==
    (pc = "done" /\ closedOn # Nil) => (unsub[closedOn] = 1 /\ wgDone = 1)

\* C11: when the shutdown signal fired while the worker was blocked in the
\* retry select with its timer not yet expired, the worker only goes on to
\* the deferred cleanup: it holds no handle, no handle is ever torn down, no
\* open attempt is started after the signal, and Done is called exactly once,
\* at the exit.
C11_ShutdownMidRetryWait ==
    (closed.at = "retryParked" /\ closed.first) =>
        /\ pc \in {"retryParked", "defer", "deferLog", "deferDone", "done"}
        /\ sub = Nil
        /\ \A h \in Handles : unsub[h] = 0
        /\ opens = closed.opens
        /\ wgDone = IF pc = "done" THEN 1 ELSE 0

\* C11 witness: the worker is done after a shutdown in the middle of a retry
\* wait that followed an open failure.
C11_Witness ==
    /\ pc = "done" /\ wgDone = 1
    /\ closed.at = "retryParked" /\ closed.first
    /\ log.critical > 0 /\ tm = "armed"

\* C12: the return of a failed open attempt leaves the worker in the retry
\* select with no handle, a fresh timer of the fixed delay and no exit; from
\* the retry wait the next open attempt follows unless the shutdown signal
\* fires; and with a source that always fails the attempts go on up to the
\* cap of the model, every timer having the same delay.
C12_OpenFailureRetried ==
    /\ [][log'.critical # log.critical =>
            /\ log'.critical = log.critical + 1
            /\ pc = "opening" /\ pc' = "retrySelect"
            /\ sub' = Nil
            /\ tm' = "armed"
            /\ wgDone' = 0]_vars
    /\ [](tm # "none" => tmDelay = axisHeadsObserverSubscribeTick)
    /\ \A n \in 1..(MaxOpens - 1) :
         (Unsubscribed /\ opens = n) ~> (sigClose \/ opens = n + 1)
    /\ (opens = 0 /\ srcFailsLeft = Always)
         ~> (sigClose \/ (pc = "opening" /\ opens = MaxOpens /\ issued = 0
                          /\ log.critical = MaxOpens - 1))

\* C12 witness: with no shutdown, the last open attempt the model allows is
\* in flight after all earlier ones failed, the timer delay unchanged.
C12_Witness ==
    /\ pc = "opening" /\ ~sigClose
    /\ opens = MaxOpens /\ issued = 0 /\ log.critical = MaxOpens - 1
    /\ tmDelay = axisHeadsObserverSubscribeTick

C14_AccessorErrorPropagation ==
    (call.fn # "none" /\ call.cerr) => call.out.err # ErrNil

\* C19: StakeUnlockPenalty returns either a non-nil amount with a nil error
\* or a nil amount with a non-nil error, whatever the pack step, the contract
\* call and the length of the response; a response that is not 32 bytes long
\* gives a non-nil error.
C19_PenaltyValueOrError ==
    call.fn = "StakeUnlockPenalty" =>
        /\ \/ ~call.out.res.nil /\ call.out.err = ErrNil
           \/ call.out.res.nil /\ call.out.err # ErrNil
        /\ (call.in[1] = ErrNil /\ call.in[2] = ErrNil
              /\ Len(call.in[3]) # PenaltyResponseLen)
             => call.out.err # ErrNil

\* the positions of the two wait points: select about to be evaluated, or
\* goroutine parked in it
RetryWaitPcs == {"retrySelect", "retryParked"}
SubWaitPcs == {"subSelect", "subParked"}

C16_CooperativeCancellation ==
    /\ [][(pc = "opening" /\ pc' # pc) =>
            /\ pc' \in {"retrySelect", "subSelect"}
            /\ issued' # issued \/ log'.critical # log.critical]_vars
    /\ [][(Exiting' /\ ~Exiting) => pc \in RetryWaitPcs \cup SubWaitPcs]_vars
    /\ [](pc = "opening" => (wgDone = 0 /\ ~Exiting))
    /\ (closed.at = "opening" /\ pc \in {"retrySelect", "subSelect"})
            ~> (pc = "done" /\ wgDone = 1)

\* C16 witness: the signal fired during the first open call, the call
\* returned a handle and the worker has finished.
C16_Witness ==
    /\ pc = "done" /\ wgDone = 1
    /\ closed.at = "opening" /\ closed.opens = 1 /\ issued = 1

\* C17: no call to blockSubscription starts in a state where sigClose is
\* already closed.
C17_NoOpenAfterShutdown ==
    [][opens' = opens + 1 => ~sigClose]_vars

\* C18: once the worker has signalled Done, every handle a successful open
\* returned has reported a failure on its error channel or has been torn
\* down by Unsubscribe, also a handle returned by an open call that
\* completed after the shutdown signal fired.
C18_NoHandleLeakedAtExit ==
    wgDone > 0 => \A h \in 1..issued : hErr[h] # "none" \/ unsub[h] >= 1

\* C18 witness: the signal fired during the open call that returned handle
\* 1, which never failed; the worker has torn it down and signalled Done.
C18_Witness ==
    /\ wgDone = 1 /\ closed.at = "opening" /\ closed.opens = 1
    /\ issued = 1 /\ hErr[1] = "none" /\ unsub[1] = 1

\* open calls that have returned without a handle
FailedOpens == opens - issued - (IF pc = "opening" THEN 1 ELSE 0)

\* C20 as stated: every failed open attempt has one critical event, every
\* stream failure of a live handle has one error event by the time Done is
\* signalled, and the worker emits one informational event on every exit
\* path, before Done is signalled.
C20_FailuresLogged ==
    /\ log.critical = FailedOpens
    /\ wgDone > 0 =>
            log.error = Cardinality({h \in 1..issued : hErr[h] # "none"})
    /\ log.notice = (IF pc \in {"deferDone", "done"} THEN 1 ELSE 0)
    /\ wgDone > 0 => log.notice = 1

\* C20 amended: every failed open attempt has one critical event, every
\* stream failure the worker received from its handle has one error event,
\* a failure not received when the shutdown case is taken has none and its
\* handle is torn down instead, and the worker emits one informational
\* event on every exit path, before Done is signalled.
C20_ReceivedFailuresLogged ==
    /\ log.critical = FailedOpens
    /\ log.error = Cardinality({h \in 1..issued : hErr[h] = "taken"})
    /\ wgDone > 0 => \A h \in 1..issued : hErr[h] = "ready" => unsub[h] = 1
    /\ log.notice = (IF pc \in {"deferDone", "done"} THEN 1 ELSE 0)
    /\ wgDone > 0 => log.notice = 1

\* C20 witness: one open failed, handle 1 failed and was received, handle 2
\* failed but the shutdown case was taken, and the worker has signalled Done.
C20_Witness ==
    /\ wgDone = 1 /\ issued = 2 /\ opens = 3
    /\ hErr[1] = "taken" /\ hErr[2] = "ready"
    /\ log = [critical |-> 1, error |-> 1, notice |-> 1]
====
